---- MODULE Spec2Model ----
(***************************************************************************)
(* A model of panel/io.py: the pending-event ledger of a bokeh Document    *)
(* (doc._held_events), the process-wide hold flag (state._hold), diff,     *)
(* block_comm, push and embed_state.                                       *)
(***************************************************************************)
EXTENDS Integers, Sequences, FiniteSets, TLC

\* ------------------------------------------------------------------ bounds

\* Events ever recorded in one behaviour.
MaxEvents == 3
\* Binary buffers one event can carry.
MaxBuffers == 1
\* block_comm scopes open at the same time.
MaxScopes == 2
\* Events in the explicit list a caller passes to diff.
MaxExplicit == 2
\* Widgets with options in the panel.
MaxWidgets == 2
\* Options of one widget.
MaxOptions == 2
\* The largest max_states a caller passes to embed_state.
MaxStates == 4
\* Calls of embed_state on one model.
MaxEmbeds == 1
\* The largest end of a slider, its largest step, and the largest max_opts a
\* caller passes to embed_state.
MaxEnd == 4
MaxStep == 2
MaxOpts == 3

\* ------------------------------------------------------------- the values

\* The documents of the process, and the one the calls below are made on.
Docs == {"d1", "d2"}

Called == {"d1"}

\* Python's None: the no-patch sentinel diff returns, and the default of diff's
\* events. An explicit list of events is [list |-> <<...>>].
None == [none |-> TRUE]

\* No document: the calls that take none.
NoDoc == "none"

\* ------------------------------------------------------------------ state

VARIABLES
    held_events,  \* doc._held_events: per document, the pending events, in order
    hold,         \* state._hold
    scopes,       \* the number of block_comm generators suspended at their yield
    recorded,     \* the events recorded so far, in order: for each the widget
                  \* whose backing element changed (0: some other model) and
                  \* the value it changed to
    ret,          \* the most recent call: what was called and how, what came
                  \* back, and the frames comm.send received from it
    encoded,      \* per event, the number of patches that have included it
                  \* (counted up to two)
    heldPending,  \* per document, the events recorded under the hold that no patch
                  \* of a later diff on that document has had its turn at
    widgets,      \* the widgets embed_state selects from the panel, in order
    tags,         \* the number of 'embedded' entries in model.tags
    roots,        \* per document, whether the model is a root of it, and the
                  \* number of State models that are
    explorer,     \* what the most recent embed_state call computed
    document,     \* model._document: the document the model belongs to
    doc_hold,     \* per document, whether it holds its events (doc._hold)
    views         \* the panes of the panel that show the value of a widget:
                  \* for each such widget, the value its pane shows

embedVars == <<widgets, tags, roots, explorer, document, doc_hold, views>>

vars == <<held_events, hold, scopes, recorded, ret, encoded, heldPending,
          widgets, tags, roots, explorer, document, doc_hold, views>>

\* The events recorded so far; each is a fresh object, named by its index.
Created == 1..Len(recorded)

Range(s) == {s[i] : i \in 1..Len(s)}

\* e in events (list membership, by identity: bokeh's events define no __eq__).
InList(e, events) == \E i \in 1..Len(events) : events[i] = e

\* A set of events as a list, in the order they were recorded.
RECURSIVE AsList(_)
AsList(S) ==
    IF S = {} THEN <<>>
    ELSE LET m == CHOOSE x \in S : \A y \in S : x <= y
         IN  <<m>> \o AsList(S \ {m})

\* ------------------------------------------------------------------- diff

\* line 209: events = list(doc._held_events) if events is None else events
ResolveEvents_DropLast(ledger, events) ==
    IF events = None
    THEN (IF ledger = <<>> THEN <<>> ELSE SubSeq(ledger, 1, Len(ledger) - 1))
    ELSE events.list

ResolveEvents(ledger, events) == IF events = None THEN ledger ELSE events.list

\* line 210: if not events or state._hold: return None
NoPatch_IgnoresHold(events) == events = <<>>

NoPatch(events) == events = <<>> \/ hold

\* The binary buffers event e carries (the arrays of a column data change):
\* the events recorded carry 1, 2, ..., MaxBuffers, 0, 1, ... buffers in turn.
Buffers(e) == e % (MaxBuffers + 1)

\* line 212: Protocol("1.0").create("PATCH-DOC", events, use_buffers=binary)
\* packs the buffers of the events, in event order, only when use_buffers is set.
RECURSIVE PackBuffers(_)
PackBuffers(events) ==
    IF events = <<>> THEN <<>>
    ELSE [j \in 1..Buffers(Head(events)) |-> <<Head(events), j>>]
         \o PackBuffers(Tail(events))

CreatePatch(events, binary) ==
    [content |-> events,
     buffers |-> IF binary THEN PackBuffers(events) ELSE <<>>]

\* line 213: [e for e in doc._held_events if e not in events]
Drain_Clear(ledger, events) == <<>>

Drain_Keep(ledger, events) == ledger

Drain_FirstOnly(ledger, events) ==
    SelectSeq(ledger, LAMBDA e : events = <<>> \/ e # Head(events))

Drain(ledger, events) == SelectSeq(ledger, LAMBDA e : ~InList(e, events))

\* diff(doc, binary, events) on a document whose ledger is `ledger`: the
\* message it returns and the ledger it leaves.
diff(ledger, binary, events) ==
    LET evs == ResolveEvents(ledger, events)
    IN  IF NoPatch(evs)
        THEN [msg |-> None, ledger |-> ledger]
        ELSE [msg |-> CreatePatch(evs, binary), ledger |-> Drain(ledger, evs)]

\* ------------------------------------------------------------------- push

\* lines 237-239: for header, payload in msg.buffers: two sends each.
RECURSIVE BufferFrames_PayloadFirst(_)
BufferFrames_PayloadFirst(bufs) ==
    IF bufs = <<>> THEN <<>>
    ELSE << <<"binary", "payload", Head(bufs)>>,
            <<"text", "buffer_header", Head(bufs)>> >>
         \o BufferFrames_PayloadFirst(Tail(bufs))

RECURSIVE BufferFrames(_)
BufferFrames(bufs) ==
    IF bufs = <<>> THEN <<>>
    ELSE << <<"text", "buffer_header", Head(bufs)>>,
            <<"binary", "payload", Head(bufs)>> >>
         \o BufferFrames(Tail(bufs))

\* lines 234-239: the comm.send calls of one push, in order.
Frames(msg) ==
    << <<"text", "header_json", msg.content>>,
       <<"text", "metadata_json", msg.content>>,
       <<"text", "content_json", msg.content>> >>
    \o BufferFrames(msg.buffers)

\* ------------------------------------------------------- the bookkeeping

\* op: the operation; doc: its document; form: "ledger" when diff resolved the
\* events from the ledger, "explicit" when the caller passed them; asked: the
\* number of events diff resolved, the max_states of embed_state; times: 2 when the caller made the call twice
\* in a row with the same arguments, and then first is what the first call
\* returned; msg, sent, raised: what the (last) call returned, the frames
\* comm.send received from it, whether it raised; before, pending: the
\* document's ledger and its held-back events when the call began.
Call(op, d, form, asked, times, first, msg, sent, raised) ==
    [op |-> op, doc |-> d, form |-> form, asked |-> asked, times |-> times,
     first |-> first, msg |-> msg, sent |-> sent, raised |-> raised,
     before |-> IF d \in Docs THEN held_events[d] ELSE <<>>,
     pending |-> IF d \in Docs THEN heldPending[d] ELSE {}]

NoCall ==
    [op |-> "none", doc |-> NoDoc, form |-> "none", asked |-> 0, times |-> 1,
     first |-> None, msg |-> None, sent |-> <<>>, raised |-> FALSE,
     before |-> <<>>, pending |-> {}]

Form(events) == IF events = None THEN "ledger" ELSE "explicit"

\* The events of msg are in one more patch now.
Encode(counts, msg) ==
    IF msg = None THEN counts
    ELSE [e \in 1..Len(counts) |->
            IF InList(e, msg.content) /\ counts[e] < 2 THEN counts[e] + 1
            ELSE counts[e]]

\* A patch of a diff on d has had its turn at the events held back on d.
Turn(pending, d, msg) ==
    IF msg = None THEN pending ELSE [pending EXCEPT ![d] = {}]

\* An event of a model that is no widget's backing element.
OtherChange == [model |-> 0, new |-> 0]

\* The model is a root of no document, and no State model is.
NoRoots == [d \in Docs |-> [model |-> FALSE, states |-> 0]]

\* embed_state has not been called.
NoExplorer ==
    [restore |-> <<>>, init_vals |-> <<>>,
     cross_product |-> <<>>, visited |-> <<>>, state_dict |-> <<>> :> None,
     attached |-> FALSE, log |-> <<>>, unrestored |-> {}, error |-> None,
     before |-> <<>>, controls |-> <<>>, max_opts |-> 0]

\* Every document holds its events.
AllHolding == [d \in Docs |-> TRUE]

\* A panel none of whose panes shows the value of a widget.
NoViews == <<>>

\* ----------------------------------------------------------------- actions

Init ==
    /\ held_events = [d \in Docs |-> <<>>]
    /\ hold = FALSE
    /\ scopes = 0
    /\ recorded = <<>>
    /\ ret = NoCall
    /\ encoded = <<>>
    /\ heldPending = [d \in Docs |-> {}]
    /\ widgets = <<>>
    /\ tags = 0
    /\ roots = NoRoots
    /\ explorer = NoExplorer
    /\ document = NoDoc
    /\ doc_hold = AllHolding
    /\ views = NoViews

\* A property change on a model of document d, which holds its events:
\* a fresh event is appended to d's ledger.
Record(d) ==
    /\ Len(recorded) < MaxEvents
    /\ LET e == Len(recorded) + 1
       IN  /\ recorded' = Append(recorded, OtherChange)
           /\ encoded' = Append(encoded, 0)
           /\ held_events' = [held_events EXCEPT ![d] = Append(@, e)]
           /\ heldPending' =
                IF hold THEN [heldPending EXCEPT ![d] = @ \cup {e}]
                ELSE heldPending
           /\ ret' = Call("record", d, "none", 0, 1, None, None, <<>>, FALSE)
    /\ UNCHANGED <<hold, scopes>>
    /\ UNCHANGED embedVars

\* diff(doc, binary, events), called once, or twice in a row with the same
\* arguments.
DiffCall(d, binary, events, times) ==
    LET r1 == diff(held_events[d], binary, events)
        r2 == IF times = 1 THEN r1 ELSE diff(r1.ledger, binary, events)
    IN  /\ held_events' = [held_events EXCEPT ![d] = r2.ledger]
        /\ ret' = Call("diff", d, Form(events),
                       Len(ResolveEvents(held_events[d], events)), times,
                       IF times = 1 THEN None ELSE r1.msg, r2.msg, <<>>, FALSE)
        /\ encoded' = IF times = 1 THEN Encode(encoded, r1.msg)
                       ELSE Encode(Encode(encoded, r1.msg), r2.msg)
        /\ heldPending' = Turn(Turn(heldPending, d, r1.msg), d, r2.msg)
        /\ UNCHANGED <<hold, scopes, recorded>>
        /\ UNCHANGED embedVars

\* What one push(doc, comm, binary) does on a document whose ledger is
\* `ledger` when the channel takes n frames: comm.send raises on the frame
\* after them when there is one.
push_PutsBack(ledger, binary, n) ==
    LET r == diff(ledger, binary, None)
        frames == IF r.msg = None THEN <<>> ELSE Frames(r.msg)
    IN  [msg |-> r.msg, ledger |-> IF n < Len(frames) THEN ledger ELSE r.ledger,
         frames |-> Len(frames),
         sent |-> SubSeq(frames, 1, n), raised |-> n < Len(frames)]

push(ledger, binary, n) ==
    LET r == diff(ledger, binary, None)
        frames == IF r.msg = None THEN <<>> ELSE Frames(r.msg)
    IN  [msg |-> r.msg, ledger |-> r.ledger, frames |-> Len(frames),
         sent |-> SubSeq(frames, 1, n), raised |-> n < Len(frames)]

\* push(doc, comm, binary), called once, or twice in a row; the channel takes
\* n frames of the first call and m of the second.
PushCall(d, binary, n, times, m) ==
    LET p1 == push(held_events[d], binary, n)
        p2 == IF times = 1 THEN p1 ELSE push(p1.ledger, binary, m)
    IN  /\ n <= p1.frames
        /\ m <= p2.frames
        /\ held_events' = [held_events EXCEPT ![d] = p2.ledger]
        /\ ret' = Call("push", d, "ledger", Len(held_events[d]), times,
                       IF times = 1 THEN None ELSE p1.msg,
                       p2.msg, p2.sent, p2.raised)
        /\ encoded' = IF times = 1 THEN Encode(encoded, p1.msg)
                       ELSE Encode(Encode(encoded, p1.msg), p2.msg)
        /\ heldPending' = Turn(Turn(heldPending, d, p1.msg), d, p2.msg)
        /\ UNCHANGED <<hold, scopes, recorded>>
        /\ UNCHANGED embedVars

\* with block_comm(): line 222, up to the yield.
block_comm_enter ==
    /\ scopes < MaxScopes
    /\ hold' = TRUE
    /\ scopes' = scopes + 1
    /\ ret' = Call("block_comm_enter", NoDoc, "none", 0, 1, None, None, <<>>, FALSE)
    /\ UNCHANGED <<held_events, recorded, encoded, heldPending>>
    /\ UNCHANGED embedVars

\* The protected region ends normally: the generator resumes, line 224.
block_comm_exit_Counted ==
    /\ scopes > 0
    /\ hold' = (scopes > 1)
    /\ scopes' = scopes - 1
    /\ ret' = Call("block_comm_exit", NoDoc, "none", 0, 1, None, None, <<>>, FALSE)
    /\ UNCHANGED <<held_events, recorded, encoded, heldPending>>
    /\ UNCHANGED embedVars

block_comm_exit ==
    /\ scopes > 0
    /\ hold' = FALSE
    /\ scopes' = scopes - 1
    /\ ret' = Call("block_comm_exit", NoDoc, "none", 0, 1, None, None, <<>>, FALSE)
    /\ UNCHANGED <<held_events, recorded, encoded, heldPending>>
    /\ UNCHANGED embedVars

\* The protected region raises: the exception is thrown into the generator
\* at its yield, which has no try/finally, so line 224 never runs.
block_comm_raise ==
    /\ scopes > 0
    /\ scopes' = scopes - 1
    /\ ret' = Call("block_comm_exit", NoDoc, "none", 0, 1, None, None, <<>>, TRUE)
    /\ UNCHANGED <<held_events, hold, recorded, encoded, heldPending>>
    /\ UNCHANGED embedVars

\* The events pending in the ledger of a document other than d.
PendingElsewhere(d) == UNION {Range(held_events[o]) : o \in Docs \ {d}}

\* The events a caller of diff on document d can pass: the events pending in
\* d's ledger, and the events of other models that are pending nowhere any
\* more (PATCH-DOC takes the events of one document; the events embed_state
\* records and encodes on its way never reach a caller).
Passable(d) ==
    {e \in Created \ PendingElsewhere(d) :
        InList(e, held_events[d]) \/ recorded[e] = OtherChange}

\* The explicit event lists a caller passes with document d.
EventLists(d) ==
    {[list |-> AsList(S)] :
        S \in {T \in SUBSET Passable(d) : Cardinality(T) <= MaxExplicit}}

\* The frames of the message push(doc, comm, binary) finds in `ledger`.
FrameCount(ledger, binary) == push(ledger, binary, 0).frames

\* The ledger and the hold: record, diff in both forms, block_comm.
Next ==
    \/ \E d \in Called : Record(d)
    \/ \E d \in Called : \E events \in {None} \cup EventLists(d) :
          \E binary \in BOOLEAN, times \in 1..2 :
             DiffCall(d, binary, events, times)
    \/ block_comm_enter
    \/ block_comm_exit
    \/ block_comm_raise

Spec == Init /\ [][Next]_vars

\* The channel: record, push, block_comm.
NextPush ==
    \/ \E d \in Called : Record(d)
    \/ \E d \in Called, binary \in BOOLEAN :
          \E n \in 0..FrameCount(held_events[d], binary) :
             PushCall(d, binary, n, 1, n)
    \/ \E d \in Called, binary \in BOOLEAN :
          \E n \in 0..FrameCount(held_events[d], binary) :
             \E m \in 0..FrameCount(push(held_events[d], binary, n).ledger, binary) :
                PushCall(d, binary, n, 2, m)
    \/ block_comm_enter
    \/ block_comm_exit
    \/ block_comm_raise

SpecPush == Init /\ [][NextPush]_vars

\* ------------------------------------------------------------ embed_state

\* A widget with options: the options in order, each a label (the key of a
\* dict of options, the text of an entry of a list of options) and the value
\* it stands for; value is w.value, mvalue the value of its backing bokeh
\* model (the label of the option selected), callbacks the number of
\* js_on_change callbacks on the backing model. No option and no value is 0.
Widget(options, k) ==
    [options |-> options, value |-> k,
     mvalue |-> IF options = <<>> THEN 0
                ELSE options[CHOOSE i \in 1..Len(options) :
                               /\ options[i].value = k
                               /\ \A j \in 1..(i - 1) : options[j].value # k].label,
     callbacks |-> 0]

\* A list of n options: the entries 1..n, the label of each its own text.
ListOptions(n) == [i \in 1..n |-> [label |-> i, value |-> i]]

\* A dict of n options whose keys all name the same value.
DictOptions(n) == [i \in 1..n |-> [label |-> 10 + i, value |-> 1]]

OptionChoices ==
    {ListOptions(n) : n \in 0..MaxOptions} \cup {DictOptions(MaxOptions)}

WidgetChoices ==
    UNION {{Widget(o, k) : k \in IF o = <<>> THEN {0} ELSE {o[i].value : i \in 1..Len(o)}} :
             o \in OptionChoices}

\* lines 346-349: vals = w.options, or list(w.options.values())
Vals(w) == [i \in 1..Len(w.options) |-> w.options[i].value]

\* line 359: vals[::-1]
Reversed_Not(vals) == vals

Reversed(vals) == [i \in 1..Len(vals) |-> vals[Len(vals) + 1 - i]]

\* itertools.product(*lists) as a list: the first list varies slowest; the
\* product of no list is the one empty combination.
RECURSIVE Product(_)
RECURSIVE ProductStep(_, _)
ProductStep(xs, rest) ==
    IF xs = <<>> THEN <<>>
    ELSE [j \in 1..Len(rest) |-> <<Head(xs)>> \o rest[j]]
         \o ProductStep(Tail(xs), rest)

Product(lists) ==
    IF lists = <<>> THEN << <<>> >>
    ELSE ProductStep(Head(lists), Product(Tail(lists)))

\* line 361: if len(cross_product) > max_states: raise RuntimeError
TooLarge_Inclusive(n, max_states) == n >= max_states

TooLarge(n, max_states) == n > max_states

\* The model of the pane that shows the value of widget i, as events name it.
ViewOf(i) == 0 - i

\* The document while embed_state runs: the value of the backing element of
\* each control and what each pane shows, by model.
DocState(st) ==
    [x \in (1..Len(st.widgets)) \cup {ViewOf(i) : i \in DOMAIN st.views} |->
        IF x > 0 THEN st.widgets[x].mvalue ELSE st.views[0 - x]]

\* w.value = k on control i, where rejects[i] is the value the assignment
\* raises on (0: none). An assignment that raises changes nothing; one that
\* changes the value of the backing model records an event on the document,
\* which holds its events; one that changes the value of the DiscreteSlider
\* that stands in for a slider carries the value over to the slider
\* (dw.link(w, value='value'), line 331); one that changes the value of a
\* widget a pane shows updates the pane, which records an event of the
\* pane's model ("propagating any side effects through the reactive object
\* graph").
SetValue(st, i, k, rejects) ==
    IF k = rejects[i] THEN [ok |-> FALSE, st |-> st]
    ELSE LET w == Widget(st.widgets[i].options, k)
             changed == w.mvalue # st.widgets[i].mvalue
             shown == i \in DOMAIN st.views /\ k # st.widgets[i].value
             events == (IF changed THEN <<[model |-> i, new |-> w.mvalue]>> ELSE <<>>)
                       \o (IF shown THEN <<[model |-> ViewOf(i), new |-> k]>> ELSE <<>>)
             ids == [j \in 1..Len(events) |-> Len(st.recorded) + j]
         IN  [ok |-> TRUE,
              st |-> [st EXCEPT
                        !.widgets[i].value = k,
                        !.widgets[i].mvalue = w.mvalue,
                        !.linked[i] = IF k # st.widgets[i].value THEN k ELSE @,
                        !.views = IF shown THEN [@ EXCEPT ![i] = k] ELSE @,
                        !.recorded = @ \o events,
                        !.encoded = @ \o [j \in 1..Len(events) |-> 0],
                        !.ledger = @ \o ids,
                        !.pending = IF hold THEN @ \cup Range(ids) ELSE @]]

\* sub_dict[m.value] on a defaultdict: the entry is created when missing.
Touch_Missing(tree, path) == tree

Touch(tree, path) ==
    IF path \in DOMAIN tree THEN tree
    ELSE [q \in DOMAIN tree \cup {path} |-> IF q = path THEN None ELSE tree[q]]

\* lines 371-378: the controls of one combination are set in turn; a control
\* whose assignment raises is passed over, and the path into state_dict
\* descends by the value of the backing model of each of the others.
RECURSIVE SetControls(_, _, _, _, _)
SetControls(st, key, i, path, rejects) ==
    IF i > Len(key) THEN [st |-> st, path |-> path, failed |-> {}]
    ELSE LET r == SetValue(st, i, key[i], rejects)
         IN  IF ~r.ok
             THEN LET rest == SetControls(st, key, i + 1, path, rejects)
                  IN  [rest EXCEPT !.failed = @ \cup {i}]
             ELSE LET sub == Append(path, r.st.widgets[i].mvalue)
                  IN  SetControls([r.st EXCEPT !.state_dict = Touch(@, sub)],
                                  key, i + 1, sub, rejects)

\* lines 266-271 and 379-381: record_events is diff(doc, False); a patch is
\* stored in the entry the path leads to.
RecordEvents(st, path) ==
    LET r == diff(st.ledger, FALSE, None)
    IN  IF r.msg = None THEN st
        ELSE [st EXCEPT !.ledger = r.ledger,
                        !.encoded = Encode(@, r.msg),
                        !.pending = {},
                        !.state_dict[path] = r.msg]

\* lines 368-381: the loop over cross_product.
\* The log keeps, for each combination in turn, the controls whose
\* assignment raised, the path the descent ended at, what record_events
\* returned there, and the document as the combination left it.
RECURSIVE Explore(_, _, _)
Explore(st, keys, rejects) ==
    IF keys = <<>> THEN st
    ELSE LET r == SetControls(st, Head(keys), 1, <<>>, rejects)
             msg == diff(r.st.ledger, FALSE, None).msg
             visited == [r.st EXCEPT
                           !.visited = Append(@, Head(keys)),
                           !.log = Append(@, [key |-> Head(keys), failed |-> r.failed,
                                              path |-> r.path, msg |-> msg,
                                              doc |-> DocState(r.st)])]
         IN  Explore(RecordEvents(visited, r.path), Tail(keys), rejects)

\* lines 383-387: w.set_param(value=v), an error passed over.
RECURSIVE Restore_Stops(_, _, _, _)
Restore_Stops(st, i, restore, rejects) ==
    IF i > Len(restore) THEN st
    ELSE LET r == SetValue(st, i, restore[i], rejects)
         IN  IF r.ok THEN Restore_Stops(r.st, i + 1, restore, rejects)
             ELSE [st EXCEPT !.unrestored = @ \cup {i}]

RECURSIVE Restore(_, _, _, _)
Restore(st, i, restore, rejects) ==
    IF i > Len(restore) THEN st
    ELSE LET r == SetValue(st, i, restore[i], rejects)
         IN  Restore(IF r.ok THEN r.st ELSE [st EXCEPT !.unrestored = @ \cup {i}],
                     i + 1, restore, rejects)

\* lines 362-366: the RuntimeError, with the numbers its message is formatted
\* from.
CapacityError(n, max_states) == [type |-> "RuntimeError", numbers |-> <<n>>]

\* lines 242-252: remove_root(obj, replace) takes the model out of the roots
\* of the document it belongs to (prev_doc.remove_root(model)).
remove_root_Nothing(rts, replace) == rts

remove_root(rts, replace) ==
    [o \in Docs |-> [rts[o] EXCEPT !.model = @ /\ o # document]]

\* lines 255-263: add_to_doc(obj, doc, hold) takes the model out of the
\* document it belongs to and makes it a root of doc.
add_to_doc(rts, d) ==
    LET removed == remove_root(rts, NoDoc)
    IN  [o \in Docs |-> [removed[o] EXCEPT !.model = @ \/ o = d]]

\* The default of max_opts (line 274).
DefaultMaxOpts == 3

\* A slider: a widget without options, rendered to a bokeh slider with
\* start, end and step; rendered is whether w._models holds its model.
Slider(start, end, step, value) ==
    [start |-> start, end |-> end, step |-> step, value |-> value,
     rendered |-> TRUE]

IsSlider(w) == "start" \in DOMAIN w

\* The sliders of the panels explored: integer start, end and step, the
\* value within the range.
SliderChoices ==
    {w \in {Slider(start, end, step, value) :
               start \in 1..2, end \in 1..MaxEnd,
               step \in 1..MaxStep, value \in 1..MaxEnd} :
        w.start <= w.end /\ w.start <= w.value /\ w.value <= w.end}

\* lines 320-327: the sampling of a slider with integer start, end and step.
\* span/step > max_opts - 1 is span > (max_opts - 1) * step for a positive
\* step; int(span/(max_opts-1)) is the quotient rounded down; np.arange(start,
\* end + step, step) is start, start + step, ... below end + step.
Discretize(start, end, step, max_opts) ==
    LET span == end - start
        by == IF span > (max_opts - 1) * step THEN span \div (max_opts - 1)
              ELSE step
        count == ((span + by - 1) \div by) + 1
    IN  [i \in 1..count |-> start + (i - 1) * by]

\* line 330: DiscreteSlider(options=vals, name=w.name): its value is the first
\* option, and its backing slider holds the index of the value; it carries
\* the link callback (345) and the state callback (351).
DiscreteSlider(vals) ==
    [Widget([i \in 1..Len(vals) |-> [label |-> i - 1, value |-> vals[i]]], vals[1])
        EXCEPT !.callbacks = 2]

\* lines 309-352: the control embed_state explores for widget w: the widget
\* itself with one more callback, or the DiscreteSlider that replaces a slider.
Control(w, max_opts) ==
    IF IsSlider(w)
    THEN DiscreteSlider(Discretize(w.start, w.end, w.step, max_opts))
    ELSE [w EXCEPT !.callbacks = @ + 1]

\* The first slider of the panel whose model an earlier embed_state has
\* popped from w._models (line 332): w._models[target] at line 315 raises a
\* KeyError there. 0 when there is none.
Unrendered ==
    LET S == {i \in 1..Len(widgets) : IsSlider(widgets[i]) /\ ~widgets[i].rendered}
    IN  IF S = {} THEN 0 ELSE CHOOSE i \in S : \A j \in S : i <= j

\* embed_state stopped by the KeyError of line 315 at widget j: the tag is on
\* the model (304), the widgets before j have their callbacks and the
\* sliders before j are replaced.
EmbedStateKeyError(d, max_states, max_opts, j) ==
    /\ tags' = tags + 1
    /\ widgets' = [i \in 1..Len(widgets) |->
                     IF i >= j THEN widgets[i]
                     ELSE IF IsSlider(widgets[i])
                          THEN [widgets[i] EXCEPT !.rendered = FALSE]
                          ELSE Control(widgets[i], max_opts)]
    /\ explorer' = [NoExplorer EXCEPT
                      !.error = [type |-> "KeyError", numbers |-> <<>>],
                      !.before = [i \in 1..Len(widgets) |-> widgets[i].value],
                      !.max_opts = max_opts]
    /\ ret' = Call("embed_state", d, "ledger", max_states, 1,
                   None, None, <<>>, TRUE)
    /\ UNCHANGED <<held_events, hold, scopes, recorded, encoded, heldPending,
                   roots, document, doc_hold, views>>

\* embed_state when line 315 finds the model of every widget: lines 301-391.
EmbedStateRun(d, max_states, max_opts, rejects) ==
    LET controls == [i \in 1..Len(widgets) |-> Control(widgets[i], max_opts)]
        restore == [i \in 1..Len(widgets) |-> controls[i].value]
        init_vals == [i \in 1..Len(widgets) |-> controls[i].mvalue]
        cross_product ==
            Product([i \in 1..Len(widgets) |-> Reversed(Vals(controls[i]))])
        raised == TooLarge(Len(cross_product), max_states)
        st0 == [widgets |-> controls, ledger |-> <<>>, recorded |-> recorded,
                encoded |-> encoded, pending |-> heldPending[d],
                visited |-> <<>>, state_dict |-> <<>> :> None,
                log |-> <<>>, unrestored |-> {},
                linked |-> [i \in 1..Len(widgets) |-> widgets[i].value],
                views |-> views]
        st == IF raised THEN st0
              ELSE Restore(Explore(st0, cross_product, rejects), 1, restore, rejects)
    IN  /\ tags' = tags + 1
        /\ widgets' = [i \in 1..Len(widgets) |->
                         IF IsSlider(widgets[i])
                         THEN [widgets[i] EXCEPT !.value = st.linked[i],
                                                 !.rendered = FALSE]
                         ELSE st.widgets[i]]
        /\ held_events' = [held_events EXCEPT ![d] = st.ledger]
        /\ recorded' = st.recorded
        /\ encoded' = st.encoded
        /\ heldPending' = [heldPending EXCEPT ![d] = st.pending]
        /\ roots' = IF raised THEN add_to_doc(roots, d)
                    ELSE [add_to_doc(roots, d) EXCEPT ![d].states = @ + 1]
        /\ explorer' =
             [restore |-> restore,
              init_vals |-> init_vals, cross_product |-> cross_product,
              visited |-> st.visited, state_dict |-> st.state_dict,
              attached |-> ~raised, log |-> st.log,
              unrestored |-> st.unrestored,
              error |-> IF raised THEN CapacityError(Len(cross_product), max_states)
                        ELSE None,
              before |-> [i \in 1..Len(widgets) |-> widgets[i].value],
              controls |-> st.widgets, max_opts |-> max_opts]
        /\ document' = d
        /\ doc_hold' = [doc_hold EXCEPT ![d] = TRUE]
        /\ views' = st.views
        /\ ret' = Call("embed_state", d, "ledger", max_states, 1,
                       None, None, <<>>, raised)
        /\ UNCHANGED <<hold, scopes>>

\* embed_state(panel, model, doc, max_states, max_opts) where the assignment
\* of rejects[i] to control i raises.
EmbedState(d, max_states, max_opts, rejects) ==
    /\ tags < MaxEmbeds
    /\ IF Unrendered > 0
       THEN EmbedStateKeyError(d, max_states, max_opts, Unrendered)
       ELSE EmbedStateRun(d, max_states, max_opts, rejects)

\* The values an assignment to a widget can raise on: one of its options, or none.
Rejects ==
    {r \in [1..Len(widgets) -> 0..MaxOptions] :
        \A i \in 1..Len(widgets) :
            r[i] = 0 \/ \E j \in 1..Len(widgets[i].options) :
                           widgets[i].options[j].value = r[i]}

\* A panel of up to MaxWidgets widgets with options, rendered to a model.
InitEmbed ==
    /\ held_events = [d \in Docs |-> <<>>]
    /\ hold = FALSE
    /\ scopes = 0
    /\ recorded = <<>>
    /\ ret = NoCall
    /\ encoded = <<>>
    /\ heldPending = [d \in Docs |-> {}]
    /\ widgets \in UNION {[1..n -> WidgetChoices] : n \in 0..MaxWidgets}
    /\ tags = 0
    /\ roots = NoRoots
    /\ explorer = NoExplorer
    /\ document = NoDoc
    /\ doc_hold = AllHolding
    /\ views = NoViews

\* Static export: record, diff in both forms, push, embed_state; the models
\* that are no widget's record one event fewer than MaxEvents.
NextEmbed ==
    \/ \E d \in Called : Len(recorded) < MaxEvents - 1 /\ Record(d)
    \/ \E d \in Called : \E events \in {None} \cup EventLists(d) :
          DiffCall(d, FALSE, events, 1)
    \/ \E d \in Called :
          \E n \in 0..FrameCount(held_events[d], FALSE) :
             PushCall(d, FALSE, n, 1, n)
    \/ \E d \in Called, max_states \in 0..MaxStates : \E rejects \in Rejects :
          EmbedState(d, max_states, DefaultMaxOpts, rejects)

SpecEmbed == InitEmbed /\ [][NextEmbed]_vars

\* A panel of up to MaxWidgets widgets, sliders and a widget with a list of
\* options, rendered to a model.
InitSlider ==
    /\ held_events = [d \in Docs |-> <<>>]
    /\ hold = FALSE
    /\ scopes = 0
    /\ recorded = <<>>
    /\ ret = NoCall
    /\ encoded = <<>>
    /\ heldPending = [d \in Docs |-> {}]
    /\ widgets \in UNION {[1..n -> SliderChoices \cup {Widget(ListOptions(MaxOptions), 1)}] :
                            n \in 0..MaxWidgets}
    /\ tags = 0
    /\ roots = NoRoots
    /\ explorer = NoExplorer
    /\ document = NoDoc
    /\ doc_hold = AllHolding
    /\ views = NoViews

\* No assignment raises.
NoRejects == [i \in 1..Len(widgets) |-> 0]

\* Static export of panels with sliders: embed_state with any max_opts from 2.
NextSlider ==
    \E d \in Called, max_states \in 0..MaxStates, max_opts \in 2..MaxOpts :
        EmbedState(d, max_states, max_opts, NoRejects)

SpecSlider == InitSlider /\ [][NextSlider]_vars

\* The panels whose panes show the value of some of the widgets: each pane
\* shows the value its widget has.
ViewChoices ==
    UNION {[S -> {0}] : S \in SUBSET (1..Len(widgets))}

\* A panel of up to MaxWidgets widgets with options and of panes that show
\* the value of a widget, rendered to a model.
InitReplay ==
    /\ held_events = [d \in Docs |-> <<>>]
    /\ hold = FALSE
    /\ scopes = 0
    /\ recorded = <<>>
    /\ ret = NoCall
    /\ encoded = <<>>
    /\ heldPending = [d \in Docs |-> {}]
    /\ widgets \in UNION {[1..n -> WidgetChoices] : n \in 0..MaxWidgets}
    /\ tags = 0
    /\ roots = NoRoots
    /\ explorer = NoExplorer
    /\ document = NoDoc
    /\ doc_hold = AllHolding
    /\ \E v \in ViewChoices : views = [i \in DOMAIN v |-> widgets[i].value]

\* Static export of panels with panes: embed_state, no assignment raising.
NextReplay ==
    \E d \in Called, max_states \in 0..MaxStates :
        EmbedState(d, max_states, DefaultMaxOpts, NoRejects)

SpecReplay == InitReplay /\ [][NextReplay]_vars

\* lines 194-200 (STATE_JS): the receiver consumes the header, the metadata
\* and the content of the leaf and, when that makes a message, the document
\* applies its content: each event sets the property of its model, in order.
\* A leaf without a message applies nothing.
RECURSIVE apply_json_patch(_, _)
apply_json_patch(doc, content) ==
    IF content = <<>> THEN doc
    ELSE LET e == recorded[Head(content)]
         IN  apply_json_patch(IF e.model \in DOMAIN doc
                              THEN [doc EXCEPT ![e.model] = e.new] ELSE doc,
                              Tail(content))

STATE_JS(doc, leaf) ==
    IF leaf = None THEN doc ELSE apply_json_patch(doc, leaf.content)

\* The hold across documents: record and diff on every document, block_comm.
NextHold ==
    \/ \E d \in Docs : Record(d)
    \/ \E d \in Docs, binary \in BOOLEAN : DiffCall(d, binary, None, 1)
    \/ block_comm_enter
    \/ block_comm_exit
    \/ block_comm_raise

SpecHold == Init /\ [][NextHold]_vars

\* ------------------------------------------------------ roots of documents

\* add_to_doc(obj, doc, hold): lines 260-263.
AddToDoc(d, h) ==
    /\ roots' = add_to_doc(roots, d)
    /\ document' = d
    /\ doc_hold' = [doc_hold EXCEPT ![d] = @ \/ h]
    /\ ret' = Call("add_to_doc", d, "none", 0, 1, None, None, <<>>, FALSE)
    /\ UNCHANGED <<held_events, hold, scopes, recorded, encoded, heldPending>>
    /\ UNCHANGED <<widgets, tags, explorer, views>>

\* remove_root(obj, replace): lines 246-252; replace is a document or NoDoc.
RemoveRoot(replace) ==
    /\ roots' = remove_root(roots, replace)
    /\ document' = replace
    /\ ret' = Call("remove_root", replace, "none", 0, 1, None, None, <<>>, FALSE)
    /\ UNCHANGED <<held_events, hold, scopes, recorded, encoded, heldPending>>
    /\ UNCHANGED <<widgets, tags, explorer, doc_hold, views>>

\* Fresh documents, which do not hold their events yet, and a model that
\* belongs to none.
InitRoots ==
    /\ held_events = [d \in Docs |-> <<>>]
    /\ hold = FALSE
    /\ scopes = 0
    /\ recorded = <<>>
    /\ ret = NoCall
    /\ encoded = <<>>
    /\ heldPending = [d \in Docs |-> {}]
    /\ widgets = <<>>
    /\ tags = 0
    /\ roots = NoRoots
    /\ explorer = NoExplorer
    /\ document = NoDoc
    /\ doc_hold = [d \in Docs |-> FALSE]
    /\ views = NoViews

\* The model moves between the documents; a document that holds its events
\* collects those recorded on it.
NextRoots ==
    \/ \E d \in Docs, h \in BOOLEAN : AddToDoc(d, h)
    \/ \E replace \in Docs \cup {NoDoc} : RemoveRoot(replace)
    \/ \E d \in Docs : doc_hold[d] /\ Record(d)

SpecRoots == InitRoots /\ [][NextRoots]_vars

\* ------------------------------------------------------------ the claims

\* The events of a message; none for the no-patch sentinel.
Included(msg) == IF msg = None THEN {} ELSE Range(msg.content)

\* The message of the first of the calls ret records.
FirstMsg == IF ret.times = 1 THEN ret.msg ELSE ret.first

\* s is t with some elements left out: the same elements in the same
\* relative order (the ledgers hold no event twice).
KeepsOrderOf(s, t) ==
    /\ Range(s) \subseteq Range(t)
    /\ \A i, j \in 1..Len(s) : i < j =>
          \E k, l \in 1..Len(t) : k < l /\ t[k] = s[i] /\ t[l] = s[j]

\* C1: after a diff that returns a patch, every event the patch includes is
\* absent from the document's ledger, and every event of the ledger the patch
\* does not include is still there, in its original relative order; in both
\* call forms.
C1_DrainsWhatThePatchIncludes ==
    (ret.op = "diff" /\ ret.times = 1 /\ ret.msg # None) =>
        LET after == held_events[ret.doc]
        IN  /\ Range(after) \cap Included(ret.msg) = {}
            /\ Range(ret.before) \ Included(ret.msg) \subseteq Range(after)
            /\ KeepsOrderOf(after, ret.before)

\* An explicit diff took one event out of the middle of a ledger of three.
C1_Witness ==
    /\ ret.op = "diff" /\ ret.times = 1 /\ ret.form = "explicit"
    /\ ret.msg # None
    /\ Len(ret.before) = 3
    /\ Len(held_events[ret.doc]) = 2
    /\ Included(ret.msg) = {ret.before[2]}

\* C2: while the hold flag is set, every diff returns None, whatever the
\* ledger holds and whatever events are passed, and leaves the document's
\* ledger the sequence it was.
C2_HeldDiffReturnsNoneAndKeepsLedger ==
    (ret.op = "diff" /\ hold) =>
        /\ ret.msg = None
        /\ FirstMsg = None
        /\ held_events[ret.doc] = ret.before

\* Under the hold, a diff was passed an event explicitly, with events pending.
C2_Witness ==
    /\ ret.op = "diff" /\ hold
    /\ ret.form = "explicit" /\ ret.asked > 0
    /\ Len(held_events[ret.doc]) >= 2

\* C3: a push that finds a patch with n buffers sends exactly header,
\* metadata, content (text), then per buffer, in buffer order, its header
\* (text) and right after it its payload (binary): 3 + 2n frames, none other;
\* a push the channel fails sends the frames before the failing one.
C3_Expected(msg, i) ==
    IF i = 1 THEN <<"text", "header_json", msg.content>>
    ELSE IF i = 2 THEN <<"text", "metadata_json", msg.content>>
    ELSE IF i = 3 THEN <<"text", "content_json", msg.content>>
    ELSE IF i % 2 = 0 THEN <<"text", "buffer_header", msg.buffers[(i - 2) \div 2]>>
    ELSE <<"binary", "payload", msg.buffers[(i - 3) \div 2]>>

C3_PushFrameSequence ==
    (ret.op = "push" /\ ret.times = 1 /\ ret.msg # None) =>
        LET n == Len(ret.msg.buffers)
        IN  /\ Len(ret.sent) <= 3 + 2 * n
            /\ ~ret.raised => Len(ret.sent) = 3 + 2 * n
            /\ \A i \in 1..Len(ret.sent) : ret.sent[i] = C3_Expected(ret.msg, i)

\* A push sent all the frames of a patch with two buffers.
C3_Witness ==
    /\ ret.op = "push" /\ ret.times = 1 /\ ret.msg # None
    /\ ~ret.raised
    /\ Len(ret.msg.buffers) = 2
    /\ Len(ret.sent) = 7

\* C4: whichever way the protected region of block_comm is left, normally or
\* by an exception, the hold flag is False once control has left the scope.
C4_HoldReleasedOnEveryExit ==
    ret.op = "block_comm_exit" => ~hold

\* C5 as stated: the events recorded under the hold stay in the ledger, and
\* all of them are in the patch returned by the first diff called on the
\* document after the hold is released.
C5_HeldEventsInFirstDiff ==
    /\ \A d \in Docs : heldPending[d] \subseteq Range(held_events[d])
    /\ (ret.op \in {"diff", "push"} /\ ~hold) =>
          ret.pending \subseteq Included(FirstMsg)

\* C5 as amended: the events recorded under the hold stay in the ledger until
\* a diff on the document returns a patch, and all of them are in the patch
\* returned by the first ledger-resolved diff (events=None) called on the
\* document after the hold is released; a diff that is passed events
\* explicitly includes those events only.
C5_HeldEventsInFirstLedgerDiff ==
    /\ \A d \in Docs : heldPending[d] \subseteq Range(held_events[d])
    /\ (ret.op \in {"diff", "push"} /\ ret.form = "ledger" /\ ~hold) =>
          ret.pending \subseteq Included(FirstMsg)
    /\ (ret.op = "diff" /\ ret.form = "explicit" /\ ~hold) =>
          Cardinality(Included(FirstMsg)) = ret.asked

\* With every scope left and the hold released, a ledger-resolved diff
\* returned the events that were recorded under the hold.
C5_Witness ==
    /\ ret.op = "diff" /\ ret.form = "ledger" /\ ~hold /\ scopes = 0
    /\ ret.pending # {}
    /\ ret.pending \subseteq Included(FirstMsg)

\* C6: a push followed at once by a second push on the same document sends
\* no frame on the second call.
C6_SecondPushSendsNothing ==
    (ret.op = "push" /\ ret.times = 2) => (ret.sent = <<>> /\ ret.msg = None)

\* The first of the two pushes found a patch, with the hold not engaged.
C6_Witness ==
    /\ ret.op = "push" /\ ret.times = 2
    /\ ret.first # None /\ ~hold
    /\ ret.sent = <<>>

\* C7 as stated: of two diff calls in a row with the same arguments, the hold
\* not engaged, the second returns None.
C7_SecondDiffReturnsNone ==
    (ret.op = "diff" /\ ret.times = 2 /\ ~hold) => ret.msg = None

\* C7 as amended: of two diff calls in a row with the same arguments, the
\* hold not engaged, the second returns None when the events are resolved
\* from the ledger (events=None); when the caller passes the events, the
\* second call returns the patch the first returned.
C7_SecondLedgerDiffReturnsNone ==
    (ret.op = "diff" /\ ret.times = 2 /\ ~hold) =>
        /\ ret.form = "ledger" => ret.msg = None
        /\ ret.form = "explicit" => ret.msg = ret.first

\* The first of two ledger-resolved diffs returned a patch.
C7_Witness ==
    /\ ret.op = "diff" /\ ret.times = 2 /\ ~hold
    /\ ret.form = "ledger"
    /\ ret.first # None /\ ret.msg = None

\* Event e is pending in the ledger of some document.
PendingIn(ledgers, e) == \E d \in Docs : InList(e, ledgers[d])

RECURSIVE Combinations(_)
Combinations(i) ==
    IF i > Len(widgets) THEN 1
    ELSE Len(widgets[i].options) * Combinations(i + 1)

\* The value of widget i in the p-th combination when each domain is walked
\* from its last value to its first and the first widget varies slowest.
C9_Expected(p, i) ==
    LET n == Len(widgets[i].options)
        digit == ((p - 1) \div Combinations(i + 1)) % n
    IN  widgets[i].options[n - digit].value

\* C9: embed_state visits the combinations in the order of the cross product
\* of the reversed domains, the first control varying slowest.
C9_ReversedDomainsFirstSlowest ==
    (ret.op = "embed_state" /\ ~ret.raised) =>
        /\ Len(explorer.visited) = Combinations(1)
        /\ \A p \in 1..Len(explorer.visited) :
              /\ Len(explorer.visited[p]) = Len(widgets)
              /\ \A i \in 1..Len(widgets) :
                    explorer.visited[p][i] = C9_Expected(p, i)

\* Two widgets with the options [1, 2]: (2,2), (2,1), (1,2), (1,1).
C9_Witness ==
    /\ ret.op = "embed_state" /\ ~ret.raised
    /\ Len(widgets) = 2
    /\ \A i \in 1..2 : Vals(widgets[i]) = <<1, 2>>
    /\ explorer.visited = << <<2, 2>>, <<2, 1>>, <<1, 2>>, <<1, 1>> >>

\* C10: embed_state raises the capacity error exactly when the number of
\* combinations exceeds max_states (equal is accepted), and after the failed
\* call every control has the value it had before the call.
C10_CapacityErrorLeavesValues ==
    ret.op = "embed_state" =>
        /\ ret.raised <=> Combinations(1) > ret.asked
        /\ ret.raised =>
              /\ Len(explorer.restore) = Len(widgets)
              /\ \A i \in 1..Len(widgets) :
                    widgets[i].value = explorer.restore[i]

\* Four combinations against a max_states of three.
C10_Witness ==
    /\ ret.op = "embed_state" /\ ret.raised
    /\ Len(widgets) = 2
    /\ Combinations(1) = 4 /\ ret.asked = 3
    /\ \E i \in 1..2 : widgets[i].value = 2

\* C11: when embed_state raises the capacity error, the roots of the
\* documents, the pending-event ledgers, the tags of the model and the
\* controls with their backing elements and callbacks are as they were
\* before the call.
C11_CapacityErrorMutatesNothing ==
    [][(ret'.op = "embed_state" /\ ret'.raised) =>
          /\ roots' = roots
          /\ held_events' = held_events
          /\ tags' = tags
          /\ widgets' = widgets
      ]_vars

\* C12: the capacity error embed_state raises carries both counts: the
\* number of combinations requested and the max_states allowed.
C12_CapacityErrorCarriesBothCounts ==
    (ret.op = "embed_state" /\ ret.raised) =>
        \E i, j \in 1..Len(explorer.error.numbers) :
            /\ i # j
            /\ explorer.error.numbers[i] = Combinations(1)
            /\ explorer.error.numbers[j] = ret.asked

\* C13: when the assignment of a control raises during the exploration, the
\* whole combination is skipped: no diff is recorded for it and nothing is
\* written into the tree on its account, and the exploration goes on with the
\* next combination.
C13_RejectedCombinationIsSkipped ==
    (ret.op = "embed_state" /\ ~ret.raised) =>
        /\ Len(explorer.log) = Len(explorer.cross_product)
        /\ \A p \in 1..Len(explorer.log) :
              explorer.log[p].failed # {} => explorer.log[p].msg = None

\* C14 as stated: for every explored combination whose diff is "no patch",
\* the path of the combination is absent from the snapshot tree.
C14_NoPatchPathIsAbsent ==
    (ret.op = "embed_state" /\ ~ret.raised) =>
        \A p \in 1..Len(explorer.log) :
            (explorer.log[p].msg = None /\ explorer.log[p].path # <<>>) =>
                explorer.log[p].path \notin DOMAIN explorer.state_dict

\* The combinations that ended at path with a patch.
C14_Patched(path) ==
    {p \in 1..Len(explorer.log) :
        explorer.log[p].path = path /\ explorer.log[p].msg # None}

\* C14 as amended: a combination whose diff is "no patch" writes nothing
\* into the snapshot tree. The path of every explored combination is present
\* in the tree (the descent creates its entries), and the entry at a path is
\* empty unless a combination that ended at that path had a patch: then it
\* holds the patch of the last such combination.
C14_NoPatchWritesNothing ==
    (ret.op = "embed_state" /\ ~ret.raised) =>
        /\ \A p \in 1..Len(explorer.log) :
              explorer.log[p].path \in DOMAIN explorer.state_dict
        /\ \A path \in DOMAIN explorer.state_dict :
              explorer.state_dict[path] =
                 IF C14_Patched(path) = {} THEN None
                 ELSE explorer.log[CHOOSE p \in C14_Patched(path) :
                                     \A q \in C14_Patched(path) : q <= p].msg

\* With no assignment raising, one combination changed nothing and left its
\* entry empty, another stored its patch.
C14_Witness ==
    /\ ret.op = "embed_state" /\ ~ret.raised
    /\ \A p \in 1..Len(explorer.log) : explorer.log[p].failed = {}
    /\ \E p, q \in 1..Len(explorer.log) :
          /\ explorer.log[p].msg = None
          /\ explorer.log[p].path # <<>>
          /\ explorer.state_dict[explorer.log[p].path] = None
          /\ explorer.log[q].msg # None
          /\ explorer.state_dict[explorer.log[q].path] = explorer.log[q].msg

\* C16: an error raised while a control is restored does not reach the
\* caller of embed_state: the call returns normally, every control whose own
\* restoring assignment did not raise has its pre-exploration value again,
\* and the State model is a root of the document.
C16_RestoreErrorIsSwallowed ==
    (ret.op = "embed_state" /\ explorer.error = None) =>
        /\ ~ret.raised
        /\ \A i \in 1..Len(widgets) :
              i \notin explorer.unrestored =>
                  widgets[i].value = explorer.restore[i]
        /\ explorer.attached
        /\ roots[ret.doc].states > 0

\* The restoring assignment of one control raised after the exploration had
\* moved another control, which is back at its value.
C16_Witness ==
    /\ ret.op = "embed_state" /\ ~ret.raised
    /\ explorer.unrestored # {}
    /\ explorer.attached /\ roots[ret.doc].states = 1
    /\ \E i \in 1..Len(widgets) :
          /\ i \notin explorer.unrestored
          /\ widgets[i].value = explorer.restore[i]
          /\ \E p \in 1..Len(explorer.log) :
                explorer.log[p].key[i] # explorer.restore[i]

\* C17: a push the channel fails at some frame has sent a strict prefix of
\* the frame sequence of its patch and nothing after it; the events of the
\* patch are out of the ledger and stay out, so the push that follows, binary
\* or not, sends nothing for them.
C17_FailedPushLosesThePatch ==
    (ret.op = "push" /\ ret.times = 1 /\ ret.raised) =>
        /\ ret.msg # None
        /\ Len(ret.sent) < 3 + 2 * Len(ret.msg.buffers)
        /\ \A i \in 1..Len(ret.sent) : ret.sent[i] = C3_Expected(ret.msg, i)
        /\ Range(held_events[ret.doc]) \cap Included(ret.msg) = {}
        /\ \A binary \in BOOLEAN :
              Included(push(held_events[ret.doc], binary, 0).msg)
                 \cap Included(ret.msg) = {}

\* The channel failed on the payload of the first buffer of a patch of two
\* events.
C17_Witness ==
    /\ ret.op = "push" /\ ret.times = 1 /\ ret.raised
    /\ Len(ret.sent) = 4
    /\ Cardinality(Included(ret.msg)) = 2
    /\ held_events[ret.doc] = <<>>

\* The documents the model is a root of.
RootOf == {d \in Docs : roots[d].model}

\* C19: after any sequence of add_to_doc and remove_root calls the model is a
\* root of at most one document, and after add_to_doc(obj, doc) it is a root
\* of doc and of no other document.
C19_RootOfAtMostOneDocument ==
    /\ Cardinality(RootOf) <= 1
    /\ ret.op = "add_to_doc" => RootOf = {ret.doc}

\* add_to_doc moved the model to d2 from d1, where an earlier add_to_doc had
\* put it and engaged the document's hold.
C19_Witness ==
    /\ ret.op = "add_to_doc" /\ ret.doc = "d2"
    /\ doc_hold["d1"] /\ ~doc_hold["d2"]
    /\ RootOf = {"d2"}

\* C20: the hold is one process-wide flag without a nesting counter. Leaving
\* a block_comm scope normally clears it even when an outer scope is still
\* open, and a diff then drains again; while it is set, diff returns None on
\* every document and leaves every ledger as it was.
C20_HoldIsOneFlagForAllDocuments ==
    /\ hold \in BOOLEAN
    /\ (ret.op = "block_comm_exit" /\ ~ret.raised) => ~hold
    /\ (ret.op = "diff" /\ hold) =>
          ret.msg = None /\ held_events[ret.doc] = ret.before
    /\ (ret.op = "diff" /\ ~hold /\ ret.before # <<>>) =>
          ret.msg # None /\ held_events[ret.doc] = <<>>

\* Two scopes were entered and one left: with the outer scope still open, a
\* diff on d2 drained the events that had been held back there while events
\* are pending on d1 too.
C20_Witness ==
    /\ scopes = 1 /\ ~hold
    /\ ret.op = "diff" /\ ret.doc = "d2"
    /\ ret.msg # None
    /\ ret.pending # {}
    /\ heldPending["d1"] # {}

\* C15: after embed_state returns normally, every control discovered in the
\* panel, with options or a slider, has the value it had right before the
\* call.
C15_EveryControlKeepsItsValue ==
    (ret.op = "embed_state" /\ ~ret.raised) =>
        \A i \in 1..Len(widgets) : widgets[i].value = explorer.before[i]

\* C18: for a slider with integer start, end and step and a max_opts of at
\* least 2, the domain embed_state computes has at most max_opts values, each
\* within [start, end].
C18_SampledDomainWithinBounds ==
    ret.op = "embed_state" =>
        \A i \in 1..Len(explorer.controls) :
            IsSlider(widgets[i]) =>
                LET vals == Vals(explorer.controls[i])
                IN  /\ Len(vals) <= explorer.max_opts
                    /\ \A j \in 1..Len(vals) :
                          widgets[i].start <= vals[j] /\ vals[j] <= widgets[i].end

\* The values the backing element of control i held right after control i
\* was set in a combination of the exploration (m.value at line 378).
HeldValues(i) ==
    {Widget(explorer.controls[i].options, explorer.log[n].key[i]).mvalue :
        n \in {n \in 1..Len(explorer.log) : i \notin explorer.log[n].failed}}

\* C21: every key at depth i of the tree embed_state builds is a value the
\* backing element of control i held right after control i was set in the
\* exploration; so the tree of a single control with n values has at most n
\* top-level keys.
C21_KeysAreHeldValues ==
    (ret.op = "embed_state" /\ ~ret.raised) =>
        /\ \A path \in DOMAIN explorer.state_dict :
              /\ Len(path) <= Len(explorer.controls)
              /\ \A i \in 1..Len(path) : path[i] \in HeldValues(i)
        /\ Len(explorer.controls) = 1 =>
              Cardinality({path \in DOMAIN explorer.state_dict : Len(path) = 1})
                 <= Len(explorer.controls[1].options)

\* The one control two combinations differ in; 0 when they differ in none or
\* in more than one.
DiffersIn(c, other) ==
    LET D == {i \in 1..Len(c) : c[i] # other[i]}
    IN  IF Cardinality(D) = 1 THEN CHOOSE i \in D : TRUE ELSE 0

\* The leaf of the tree at a path: None when absent or empty.
Leaf(path) ==
    IF path \in DOMAIN explorer.state_dict THEN explorer.state_dict[path]
    ELSE None

\* C22: static replay is live sync. For every explored combination c and
\* every combination c' that differs from c in one control, a client whose
\* document is in the state of c', the one control changed to its value in
\* c, that applies the leaf recorded at the path of c (nothing when it is
\* absent or empty) ends in the state the server's document had when c was
\* set in the exploration.
C22_ReplayIsLiveSync ==
    (ret.op = "embed_state" /\ ~ret.raised) =>
        \A n, m \in 1..Len(explorer.log) :
            LET c == explorer.log[n]
                other == explorer.log[m]
                j == DiffersIn(c.key, other.key)
            IN  j # 0 =>
                  STATE_JS([other.doc EXCEPT ![j] = c.doc[j]], Leaf(c.path)) = c.doc

====
